---- MODULE Spec2Model ----
(***************************************************************************)
(* Speech Analyzer server (app.js): the POST /analyze-speech pipeline      *)
(* (Deepgram transcription -> Gemini feedback -> gTTS synthesis -> result  *)
(* store with a one-hour expiry timer), the in-memory result store and its *)
(* read handlers.                                                          *)
(*                                                                         *)
(* The handler is an async function on Node's single-threaded event loop:  *)
(* the code between two awaits runs atomically, so there is one action per *)
(* resumption of an await, taking the awaited operation's outcome as its   *)
(* input and running the handler to its next await or to its response.     *)
(*                                                                         *)
(* Strings are sequences of lexemes.  The two marker literals of the       *)
(* parsing regexes ("Feedback:" and "Corrected:", in any letter case) are  *)
(* single lexemes: the regexes match them only as whole literals, and no   *)
(* marker can overlap another.  Whitespace lexemes are " " and "\n".       *)
(***************************************************************************)
EXTENDS Integers, Sequences, FiniteSets, TLC

\* ------------------------------------------------------------------ bounds

\* Number of analysis requests that may be in flight together.
MaxReqs == 2
\* Number of distinct values Math.random() may yield for the id suffix.
MaxRand == 2
\* Milliseconds the clock may advance beyond a multiple of the retention window.
MaxSlack == 1
\* Retention windows the clock may advance through.
MaxHours == 1
\* Longest feedback-generation output (in lexemes) enumerated by SpecParse.
MaxAiLen == 5

\* The retention window of a stored result, in milliseconds (setTimeout delay).
TTL == 3600000

Reqs == 1..MaxReqs
Rands == 1..MaxRand

\* ----------------------------------------------------------------- strings

Undefined == [def |-> FALSE, val |-> <<>>]
Str(s) == [def |-> TRUE, val |-> s]

\* /\s/ of the regexes and the whitespace String.prototype.trim removes.
IsSpace(c) == c \in {" ", "\n"}

\* String.prototype.toLowerCase on one lexeme.
LowerChar(c) ==
  CASE c = "A" -> "a"
    [] c = "B" -> "b"
    [] c = "FEEDBACK:" -> "feedback:"
    [] c = "Feedback:" -> "feedback:"
    [] c = "CORRECTED:" -> "corrected:"
    [] c = "Corrected:" -> "corrected:"
    [] OTHER -> c

toLowerCase(s) == [i \in 1..Len(s) |-> LowerChar(s[i])]

\* The literal Feedback: of the regex under the /i flag.
IsFeedbackMarker(c) == LowerChar(c) = "feedback:"
\* The literal Corrected: of the regexes under the /i flag.
IsCorrectedMarker(c) == LowerChar(c) = "corrected:"

\* Index of the first non-whitespace lexeme of s at or after i, Len(s)+1 if none.
RECURSIVE SkipSpace(_, _)
SkipSpace(s, i) ==
  IF i > Len(s) THEN Len(s) + 1
  ELSE IF IsSpace(s[i]) THEN SkipSpace(s, i + 1) ELSE i

\* Index of the last non-whitespace lexeme of s at or before i, 0 if none.
RECURSIVE SkipSpaceBack(_, _)
SkipSpaceBack(s, i) ==
  IF i < 1 THEN 0
  ELSE IF IsSpace(s[i]) THEN SkipSpaceBack(s, i - 1) ELSE i

\* String.prototype.trim
trim(s) ==
  LET a == SkipSpace(s, 1)
      b == SkipSpaceBack(s, Len(s))
  IN IF a > b THEN <<>> ELSE SubSeq(s, a, b)

\* Index of the first lexeme of s at or after i that is a Feedback: marker, 0 if none.
RECURSIVE FirstFeedback(_, _)
FirstFeedback(s, i) ==
  IF i > Len(s) THEN 0
  ELSE IF IsFeedbackMarker(s[i]) THEN i ELSE FirstFeedback(s, i + 1)

\* Index of the first lexeme of s at or after i that is a Corrected: marker, 0 if none.
RECURSIVE FirstCorrected(_, _)
FirstCorrected(s, i) ==
  IF i > Len(s) THEN 0
  ELSE IF IsCorrectedMarker(s[i]) THEN i ELSE FirstCorrected(s, i + 1)

\* The lookahead (?=\nCorrected:|$) at position i (the next lexeme to read).
LookaheadCorrectedOrEnd(s, i) ==
  \/ i > Len(s)
  \/ /\ i + 1 <= Len(s)
     /\ s[i] = "\n"
     /\ IsCorrectedMarker(s[i + 1])

\* The lazy group ([\s\S]*?) followed by the lookahead: the first position at
\* or after i where the lookahead holds.
RECURSIVE LazyEnd(_, _)
LazyEnd(s, i) ==
  IF LookaheadCorrectedOrEnd(s, i) THEN i ELSE LazyEnd(s, i + 1)

\* Mutant: the group made greedy, ([\s\S]*), which runs to the end of the text.
feedbackMatch_Greedy(aiText) ==
  LET i == FirstFeedback(aiText, 1)
      k == SkipSpace(aiText, i + 1)
  IN IF i = 0 THEN Undefined ELSE Str(SubSeq(aiText, k, Len(aiText)))

\* aiText.match(/Feedback:\s*([\s\S]*?)(?=\nCorrected:|$)/i): the match's
\* group 1, Undefined when the regex does not match.
feedbackMatch(aiText) ==
  LET i == FirstFeedback(aiText, 1)
      k == SkipSpace(aiText, i + 1)
      m == LazyEnd(aiText, k)
  IN IF i = 0 THEN Undefined ELSE Str(SubSeq(aiText, k, m - 1))

\* aiText.match(/Corrected:\s*([\s\S]*?)$/i): the match's group 1.
correctedMatch(aiText) ==
  LET i == FirstCorrected(aiText, 1)
      k == SkipSpace(aiText, i + 1)
  IN IF i = 0 THEN Undefined ELSE Str(SubSeq(aiText, k, Len(aiText)))

DefaultFeedback == <<"No specific feedback generated.">>

\* let feedback = "No specific feedback generated."; if (feedbackMatch) ...
ParseFeedback(aiText) ==
  IF feedbackMatch(aiText).def THEN trim(feedbackMatch(aiText).val)
  ELSE DefaultFeedback

\* Mutant: the fallback trims the transcript.
ParseCorrected_TrimFallback(aiText, transcript) ==
  IF correctedMatch(aiText).def THEN trim(correctedMatch(aiText).val)
  ELSE trim(transcript)

\* let correctedText = transcript; if (correctedMatch) ...
ParseCorrected(aiText, transcript) ==
  IF correctedMatch(aiText).def THEN trim(correctedMatch(aiText).val)
  ELSE transcript

\* ------------------------------------------------------------------ errors

\* An Error object as the catch block reads it: error.code, error.message (a
\* sequence of words; String.prototype.includes looks for a word in it) and
\* error.response?.status (0 when the error carries no response).
NoError == [code |-> "", message |-> <<>>, status |-> 0]

\* axios: the request's own timeout (timeout: 30000 / timeout: 15000) expired.
AxiosTimeoutError ==
  [code |-> "ECONNABORTED", message |-> <<"timeout", "of", "ms", "exceeded">>, status |-> 0]
\* axios: the upstream answered with a non-2xx status.
AxiosStatusError(st) ==
  [code |-> "ERR_BAD_RESPONSE", message |-> <<"Request", "failed", "with", "status", "code">>,
   status |-> st]
\* axios: the connection failed (reset, refused, DNS).
AxiosNetworkError ==
  [code |-> "ECONNRESET", message |-> <<"socket", "hang", "up">>, status |-> 0]
\* fs.promises: a rejected readFile, unlink or mkdir.
FsError(op) == [code |-> "EIO", message |-> <<"EIO:", "i/o", "error,", op>>, status |-> 0]
\* fs.promises: the path does not exist.
FsNoEntError(op) ==
  [code |-> "ENOENT", message |-> <<"ENOENT:", "no", "such", "file", "or", "directory,", op>>,
   status |-> 0]
\* undefined[0] in the transcript extraction.
TypeErrorUndefined ==
  [code |-> "", message |-> <<"Cannot", "read", "properties", "of", "undefined">>, status |-> 0]
\* What gTTS hands to the save callback: any failure of the library, a
\* network timeout of its own included.
GttsErrors ==
  { [code |-> "", message |-> <<"gtts", "request", "failed">>, status |-> 0],
    [code |-> "ETIMEDOUT", message |-> <<"gtts", "timeout">>, status |-> 0] }
\* Mutant: reject(err), the library's error passed on as it is.
TtsError_PassThrough(err) == err

\* reject(new Error('Failed to generate corrected audio')): the library's
\* error is logged and replaced.
TtsError(err) ==
  [code |-> "", message |-> <<"Failed", "to", "generate", "corrected", "audio">>, status |-> 0]

\* error.message.includes('timeout')
MessageIncludesTimeout(error) ==
  \E i \in 1..Len(error.message) : error.message[i] = "timeout"

\* The failures an axios call can end in, each with the kind of failure it is.
AxiosFailures ==
  { [kind |-> "timeout", error |-> AxiosTimeoutError],
    [kind |-> "auth", error |-> AxiosStatusError(401)],
    [kind |-> "other", error |-> AxiosStatusError(500)],
    [kind |-> "other", error |-> AxiosNetworkError] }

\* --------------------------------------------------------------- responses

NoFileBody ==
  [error |-> "No audio file uploaded",
   message |-> "Please select an audio file to analyze"]
NoSpeechBody ==
  [error |-> "No speech detected",
   message |-> "Could not detect any speech in the audio file. Please try again with a clearer recording."]
TimeoutBody ==
  [error |-> "Request timeout",
   message |-> "The analysis took too long. Please try with a shorter audio file."]
AuthBody ==
  [error |-> "API authentication failed",
   message |-> "There was an issue with the speech analysis service. Please try again later."]
FailedMessage ==
  "Failed to analyze speech. Please ensure you uploaded a valid audio file and try again."

\* res.status(st).json(body)
Reply(st, body) == [status |-> st, body |-> body]

\* Mutant: details: error.message, whatever NODE_ENV is.
Classify_AlwaysDetails(error, env) ==
  IF error.code = "ECONNABORTED" \/ MessageIncludesTimeout(error)
  THEN Reply(408, TimeoutBody)
  ELSE IF error.status = 401
  THEN Reply(500, AuthBody)
  ELSE Reply(500, [error |-> "Analysis failed", message |-> FailedMessage,
                    details |-> error.message])

\* The catch block's "Return user-friendly error" part.  JSON.stringify
\* drops a field whose value is undefined.
Classify(error, env) ==
  IF error.code = "ECONNABORTED" \/ MessageIncludesTimeout(error)
  THEN Reply(408, TimeoutBody)
  ELSE IF error.status = 401
  THEN Reply(500, AuthBody)
  ELSE IF env = "development"
  THEN Reply(500, [error |-> "Analysis failed", message |-> FailedMessage,
                    details |-> error.message])
  ELSE Reply(500, [error |-> "Analysis failed", message |-> FailedMessage])

\* ------------------------------------------------------------ transcription

\* A Deepgram response body, by the fields the extraction walks: data,
\* data.results, results.channels (a list of channels, each with a list of
\* alternatives, each with a transcript).
NoDataResponse == [data |-> FALSE, results |-> FALSE, channels |-> Undefined]
NoResultsResponse == [data |-> TRUE, results |-> FALSE, channels |-> Undefined]
ChannelsResponse(ch) == [data |-> TRUE, results |-> TRUE, channels |-> ch]
Channel(alts) == [alternatives |-> alts]
Alternative(t) == [transcript |-> t]

\* The transcripts Deepgram may return.
Transcripts == { <<>>, <<" ">>, <<"a">> }

DeepgramResponses ==
  { NoDataResponse, NoResultsResponse,
    ChannelsResponse(Undefined),
    ChannelsResponse(Str(<<>>)),
    ChannelsResponse(Str(<<Channel(Undefined)>>)),
    ChannelsResponse(Str(<<Channel(Str(<<>>))>>)),
    ChannelsResponse(Str(<<Channel(Str(<<Alternative(Undefined)>>))>>)) }
  \cup { ChannelsResponse(Str(<<Channel(Str(<<Alternative(Str(t))>>))>>)) : t \in Transcripts }

\* deepgramResponse.data?.results?.channels[0]?.alternatives[0]?.transcript
\* An optional chain short-circuits to undefined as a whole; an index into
\* undefined (channels[0], alternatives[0]) throws a TypeError.
ExtractTranscript(resp) ==
  IF ~resp.data \/ ~resp.results THEN [threw |-> FALSE, value |-> Undefined]
  ELSE IF ~resp.channels.def THEN [threw |-> TRUE, value |-> Undefined]
  ELSE IF resp.channels.val = <<>> THEN [threw |-> FALSE, value |-> Undefined]
  ELSE IF ~resp.channels.val[1].alternatives.def THEN [threw |-> TRUE, value |-> Undefined]
  ELSE IF resp.channels.val[1].alternatives.val = <<>>
  THEN [threw |-> FALSE, value |-> Undefined]
  ELSE [threw |-> FALSE, value |-> resp.channels.val[1].alternatives.val[1].transcript]

\* Mutant: the check without the trim, !transcript alone.
NoSpeech_NoTrim(transcript) ==
  \/ ~transcript.def
  \/ transcript.val = <<>>

\* !transcript || transcript.trim() === ''
NoSpeech(transcript) ==
  \/ ~transcript.def
  \/ transcript.val = <<>>
  \/ trim(transcript.val) = <<>>

\* ----------------------------------------------------------------- feedback

\* The texts Gemini may answer with in Spec.
AiTexts ==
  { <<>>,
    <<"Feedback:", "a", "\n", "Corrected:", "A">>,
    <<"feedback:", "b", " ", "corrected:", " ">> }

\* geminiResponse.data?.candidates?.[0]?.content?.parts?.[0]?.text: the text,
\* or undefined when any link of the chain is missing.
GeminiResponses == {Undefined} \cup { Str(t) : t \in AiTexts }

\* ... || ""
AiTextOf(text) == IF text.def THEN text.val ELSE <<>>

\* ---------------------------------------------------------------- synthesis

\* `analysis_${Date.now()}_${Math.random().toString(36).substr(2, 9)}`
AnalysisId(ms, rnd) == [ms |-> ms, rnd |-> rnd]
NoId == [ms |-> 0 - 1, rnd |-> 0]

\* The audio gTTS writes for a text.
Mp3(text) == [mp3 |-> text]
NoAudio == [base64 |-> [mp3 |-> <<>>], set |-> FALSE]
\* audioBufferCorrected.toString("base64")
Base64(buf) == [base64 |-> buf, set |-> TRUE]
\* Buffer.from(result.audio, 'base64')
FromBase64(b) == b.base64

\* -------------------------------------------------------------------- state

VARIABLES
  req,              \* per request: the handler's position and its locals
  analysisResults,  \* const analysisResults = new Map(): id -> result
  timers,           \* pending setTimeout callbacks: {id, deadline, run}
  now,              \* the clock, in milliseconds
  uploads,          \* requests whose multer upload file exists in uploads/
  temp,             \* files in temp/: id (of speech_<id>.mp3) -> content
  nodeEnv,          \* process.env.NODE_ENV
  lastRead          \* the latest GET request and the response it was given

vars == <<req, analysisResults, timers, now, uploads, temp, nodeEnv, lastRead>>

NodeEnvs == {"development", "production"}

\* No GET request has been answered yet.
NoRead == [route |-> "", id |-> NoId, reply |-> [status |-> 0, body |-> <<>>]]

\* A request before it reaches the handler.  responses, trace, kind, aiText,
\* putAt and expired record the run's history for the properties below; the
\* handler reads none of them.  trace lists the external calls ("stt.call",
\* "fb.call", "tts.call"), how each ended (".ok", ".fail"), every throw
\* into the catch block, the outcome of the catch block's unlink and the
\* store insert ("put").
InitReq ==
  [pc |-> "idle", file |-> FALSE, resp |-> NoDataResponse, transcript |-> Undefined,
   aiText |-> <<>>, feedback |-> <<>>, correctedText |-> <<>>, analysisId |-> NoId,
   audio |-> NoAudio, error |-> NoError, kind |-> "", responses |-> <<>>,
   trace |-> <<>>, putAt |-> 0 - 1, expired |-> FALSE]

Init ==
  /\ req = [r \in Reqs |-> InitReq]
  /\ analysisResults = <<>>
  /\ timers = {}
  /\ now = 0
  /\ uploads = {}
  /\ temp = <<>>
  /\ nodeEnv \in NodeEnvs
  /\ lastRead = NoRead

\* Map.prototype.set / a file written
MapSet(m, k, v) == [x \in DOMAIN m \cup {k} |-> IF x = k THEN v ELSE m[x]]
\* Map.prototype.delete / a file unlinked
MapDelete(m, k) == [x \in DOMAIN m \ {k} |-> m[x]]

\* res.status(..).json(..) followed by the handler's return (its local error
\* dies with it).
Respond(rq, reply) ==
  [rq EXCEPT !.responses = Append(@, reply), !.error = NoError, !.pc = "done"]

\* A throw inside the try block: control enters the catch block, which (req.file
\* being set) awaits fs.unlink(req.file.path) before it answers.
Catch(rq, e, k) ==
  IF rq.file
  THEN [rq EXCEPT !.error = e, !.kind = k, !.trace = Append(@, "throw"),
                  !.pc = "catchUnlink"]
  ELSE Respond([rq EXCEPT !.error = e, !.kind = k, !.trace = Append(@, "throw")],
               Classify(e, nodeEnv))

\* The result object of step 4.
Result(rq) ==
  [id |-> rq.analysisId, transcript |-> rq.transcript.val, feedback |-> rq.feedback,
   correctedText |-> rq.correctedText, audio |-> rq.audio, timestamp |-> now]

\* Mutant: the preview compares the two texts as they are, case included.
SuccessReply_CaseSensitive(rq) ==
  Reply(200, [success |-> TRUE, analysisId |-> rq.analysisId,
              redirectUrl |-> rq.analysisId,
              hasCorrections |-> rq.correctedText # rq.transcript.val])

\* res.json({success: true, analysisId, redirectUrl, preview})
SuccessReply(rq) ==
  Reply(200, [success |-> TRUE, analysisId |-> rq.analysisId,
              redirectUrl |-> rq.analysisId,
              hasCorrections |->
                toLowerCase(rq.correctedText) # toLowerCase(rq.transcript.val)])

\* ----------------------------------------------------------- the handler

\* The request reaches the handler (multer has stored the upload, if any).
\* No file: 400.  Otherwise the handler awaits fs.readFile(audioPath).
Start(r, hasFile) ==
  /\ req[r].pc = "idle"
  /\ IF hasFile
     THEN /\ req' = [req EXCEPT ![r].file = TRUE, ![r].pc = "readUpload"]
          /\ uploads' = uploads \cup {r}
     ELSE /\ req' = [req EXCEPT ![r] = Respond([@ EXCEPT !.kind = "nofile"],
                                                Reply(400, NoFileBody))]
          /\ UNCHANGED uploads
  /\ UNCHANGED <<analysisResults, timers, now, temp, nodeEnv, lastRead>>

\* fs.readFile(audioPath) settles; on success the Deepgram request is sent.
ReadUploadDone(r, ok) ==
  /\ req[r].pc = "readUpload"
  /\ ok => r \in uploads
  /\ req' = [req EXCEPT ![r] =
       IF ok THEN [@ EXCEPT !.trace = Append(@, "stt.call"), !.pc = "deepgram"]
       ELSE Catch(@, FsError("open"), "other")]
  /\ UNCHANGED <<analysisResults, timers, now, uploads, temp, nodeEnv, lastRead>>

\* The Deepgram call resolves with a response: the handler awaits
\* fs.unlink(audioPath).
DeepgramReturn(r, resp) ==
  /\ req[r].pc = "deepgram"
  /\ req' = [req EXCEPT ![r].resp = resp, ![r].trace = Append(@, "stt.ok"),
                        ![r].pc = "unlinkUpload"]
  /\ UNCHANGED <<analysisResults, timers, now, uploads, temp, nodeEnv, lastRead>>

\* The Deepgram call rejects.
DeepgramFail(r, f) ==
  /\ req[r].pc = "deepgram"
  /\ req' = [req EXCEPT ![r] =
       Catch([@ EXCEPT !.trace = Append(@, "stt.fail")], f.error, f.kind)]
  /\ UNCHANGED <<analysisResults, timers, now, uploads, temp, nodeEnv, lastRead>>

\* After the unlink of the upload: the transcript is extracted and checked,
\* and the Gemini request is sent.
AfterUnlinkUpload(rq) ==
  LET x == ExtractTranscript(rq.resp)
  IN IF x.threw THEN Catch(rq, TypeErrorUndefined, "other")
     ELSE IF NoSpeech(x.value)
     THEN Respond([rq EXCEPT !.transcript = x.value, !.kind = "nospeech"],
                  Reply(400, NoSpeechBody))
     ELSE [rq EXCEPT !.transcript = x.value, !.trace = Append(@, "fb.call"),
                     !.pc = "gemini"]

\* await fs.unlink(audioPath) settles.
UnlinkUploadDone(r, ok) ==
  /\ req[r].pc = "unlinkUpload"
  /\ ok => r \in uploads
  /\ IF ok
     THEN /\ uploads' = uploads \ {r}
          /\ req' = [req EXCEPT ![r] = AfterUnlinkUpload(@)]
     ELSE /\ UNCHANGED uploads
          /\ req' = [req EXCEPT ![r] = Catch(@, FsError("unlink"), "other")]
  /\ UNCHANGED <<analysisResults, timers, now, temp, nodeEnv, lastRead>>

\* The Gemini call resolves: the answer is parsed and the handler awaits
\* fs.mkdir(tempDir).
GeminiReturn(r, text) ==
  /\ req[r].pc = "gemini"
  /\ req' = [req EXCEPT ![r] =
       [@ EXCEPT !.aiText = AiTextOf(text),
                 !.feedback = ParseFeedback(AiTextOf(text)),
                 !.correctedText = ParseCorrected(AiTextOf(text), req[r].transcript.val),
                 !.trace = Append(@, "fb.ok"),
                 !.pc = "mkdir"]]
  /\ UNCHANGED <<analysisResults, timers, now, uploads, temp, nodeEnv, lastRead>>

\* Mutant: the rejection is swallowed and the handler goes on with the
\* defaults, to fs.mkdir and the synthesis.
GeminiFail_Continue(r, f) ==
  /\ req[r].pc = "gemini"
  /\ req' = [req EXCEPT ![r] =
       [@ EXCEPT !.feedback = DefaultFeedback, !.correctedText = req[r].transcript.val,
                 !.trace = Append(@, "fb.fail"), !.pc = "mkdir"]]
  /\ UNCHANGED <<analysisResults, timers, now, uploads, temp, nodeEnv, lastRead>>

\* The Gemini call rejects.
GeminiFail(r, f) ==
  /\ req[r].pc = "gemini"
  /\ req' = [req EXCEPT ![r] =
       Catch([@ EXCEPT !.trace = Append(@, "fb.fail")], f.error, f.kind)]
  /\ UNCHANGED <<analysisResults, timers, now, uploads, temp, nodeEnv, lastRead>>

\* fs.mkdir settles; on success the id is generated (rnd is what Math.random
\* yields) and tts.save(correctedAudioPath) is started.
MkdirDone(r, ok, rnd) ==
  /\ req[r].pc = "mkdir"
  /\ req' = [req EXCEPT ![r] =
       IF ok
       THEN [@ EXCEPT !.analysisId = AnalysisId(now, rnd),
                      !.trace = Append(@, "tts.call"), !.pc = "tts"]
       ELSE Catch(@, FsError("mkdir"), "other")]
  /\ UNCHANGED <<analysisResults, timers, now, uploads, temp, nodeEnv, lastRead>>

\* tts.save calls back without an error: the file is written and the handler
\* awaits fs.readFile(correctedAudioPath).
TtsSaveDone(r) ==
  /\ req[r].pc = "tts"
  /\ temp' = MapSet(temp, req[r].analysisId, Mp3(req[r].correctedText))
  /\ req' = [req EXCEPT ![r].trace = Append(@, "tts.ok"), ![r].pc = "readBack"]
  /\ UNCHANGED <<analysisResults, timers, now, uploads, nodeEnv, lastRead>>

\* Mutant: the result is stored before the synthesis has succeeded, so a
\* failed tts.save leaves a record behind.
TtsSaveFail_Stores(r, err, written) ==
  /\ req[r].pc = "tts"
  /\ temp' = IF written THEN MapSet(temp, req[r].analysisId, Mp3(<<>>)) ELSE temp
  /\ analysisResults' = MapSet(analysisResults, req[r].analysisId, Result(req[r]))
  /\ req' = [req EXCEPT ![r] =
       Catch([@ EXCEPT !.trace = Append(@, "tts.fail")], TtsError(err), "synth")]
  /\ UNCHANGED <<timers, now, uploads, nodeEnv, lastRead>>

\* tts.save calls back with an error; the file may have been created
\* (written) before the failure.
TtsSaveFail(r, err, written) ==
  /\ req[r].pc = "tts"
  /\ temp' = IF written THEN MapSet(temp, req[r].analysisId, Mp3(<<>>)) ELSE temp
  /\ req' = [req EXCEPT ![r] =
       Catch([@ EXCEPT !.trace = Append(@, "tts.fail")], TtsError(err), "synth")]
  /\ UNCHANGED <<analysisResults, timers, now, uploads, nodeEnv, lastRead>>

\* fs.readFile(correctedAudioPath) settles; on success the handler awaits
\* fs.unlink(correctedAudioPath).
ReadBackDone(r, ok) ==
  /\ req[r].pc = "readBack"
  /\ ok => req[r].analysisId \in DOMAIN temp
  /\ req' = [req EXCEPT ![r] =
       IF ok THEN [@ EXCEPT !.audio = Base64(temp[req[r].analysisId]), !.pc = "unlinkTemp"]
       ELSE IF @.analysisId \in DOMAIN temp THEN Catch(@, FsError("open"), "synth")
       ELSE Catch(@, FsNoEntError("open"), "synth")]
  /\ UNCHANGED <<analysisResults, timers, now, uploads, temp, nodeEnv, lastRead>>

\* Mutant: the record is stored without an expiry timer.
StoreAndRespond_NoTimer(r) ==
  /\ analysisResults' = MapSet(analysisResults, req[r].analysisId, Result(req[r]))
  /\ timers' = timers
  /\ req' = [req EXCEPT ![r] =
       Respond([@ EXCEPT !.trace = Append(@, "put"), !.putAt = now], SuccessReply(@))]

\* Step 4: analysisResults.set, setTimeout(.., 3600000) and the 200 response.
StoreAndRespond(r) ==
  /\ analysisResults' = MapSet(analysisResults, req[r].analysisId, Result(req[r]))
  /\ timers' = timers \cup
       {[id |-> req[r].analysisId, deadline |-> now + TTL, run |-> r]}
  /\ req' = [req EXCEPT ![r] =
       Respond([@ EXCEPT !.trace = Append(@, "put"), !.putAt = now], SuccessReply(@))]

\* await fs.unlink(correctedAudioPath) settles; on success step 4 runs.
UnlinkTempDone(r, ok) ==
  /\ req[r].pc = "unlinkTemp"
  /\ ok => req[r].analysisId \in DOMAIN temp
  /\ IF ok
     THEN /\ temp' = MapDelete(temp, req[r].analysisId)
          /\ StoreAndRespond(r)
     ELSE /\ req' = [req EXCEPT ![r] =
               IF @.analysisId \in DOMAIN temp THEN Catch(@, FsError("unlink"), "synth")
               ELSE Catch(@, FsNoEntError("unlink"), "synth")]
          /\ UNCHANGED <<analysisResults, timers, temp>>
  /\ UNCHANGED <<now, uploads, nodeEnv, lastRead>>

\* Mutant: the catch block without its inner try/catch: a rejected unlink
\* leaves the catch block by an exception and no response is sent.
CatchUnlinkDone_Rethrow(r, ok) ==
  /\ req[r].pc = "catchUnlink"
  /\ ok => r \in uploads
  /\ uploads' = IF ok THEN uploads \ {r} ELSE uploads
  /\ req' = [req EXCEPT ![r] =
       IF ok THEN Respond([@ EXCEPT !.trace = Append(@, "cleanup.ok")],
                          Classify(@.error, nodeEnv))
       ELSE [@ EXCEPT !.trace = Append(@, "cleanup.fail"), !.pc = "unhandled"]]
  /\ UNCHANGED <<analysisResults, timers, now, temp, nodeEnv, lastRead>>

\* Mutant: a catch block that answers without unlinking the upload.
CatchUnlinkDone_Skip(r, ok) ==
  /\ req[r].pc = "catchUnlink"
  /\ req' = [req EXCEPT ![r] = Respond(@, Classify(@.error, nodeEnv))]
  /\ UNCHANGED <<analysisResults, timers, now, uploads, temp, nodeEnv, lastRead>>

\* The catch block's await fs.unlink(req.file.path) settles (a failure is
\* logged and swallowed) and the error response is sent.
CatchUnlinkDone(r, ok) ==
  /\ req[r].pc = "catchUnlink"
  /\ ok => r \in uploads
  /\ uploads' = IF ok THEN uploads \ {r} ELSE uploads
  /\ req' = [req EXCEPT ![r] =
       Respond([@ EXCEPT !.trace = Append(@, IF ok THEN "cleanup.ok" ELSE "cleanup.fail")],
               Classify(@.error, nodeEnv))]
  /\ UNCHANGED <<analysisResults, timers, now, temp, nodeEnv, lastRead>>

\* ------------------------------------------------------- timers and clock

\* Mutant: the callback clears the whole Map.
TimerFire_Clear(t) ==
  /\ t \in timers
  /\ now >= t.deadline
  /\ analysisResults' = <<>>
  /\ timers' = timers \ {t}
  /\ req' = [req EXCEPT ![t.run].expired = TRUE]
  /\ UNCHANGED <<now, uploads, temp, nodeEnv, lastRead>>

\* A setTimeout callback runs, at or after its deadline:
\* analysisResults.delete(analysisId).
TimerFire(t) ==
  /\ t \in timers
  /\ now >= t.deadline
  /\ analysisResults' = MapDelete(analysisResults, t.id)
  /\ timers' = timers \ {t}
  /\ req' = [req EXCEPT ![t.run].expired = TRUE]
  /\ UNCHANGED <<now, uploads, temp, nodeEnv, lastRead>>

\* The clock values the model visits.
Instants == { h * TTL + s : h \in 0..MaxHours, s \in 0..MaxSlack }

\* Time passes: a millisecond, or a whole retention window.
Tick(d) ==
  /\ now + d \in Instants
  /\ now' = now + d
  /\ UNCHANGED <<req, analysisResults, timers, uploads, temp, nodeEnv, lastRead>>

\* ----------------------------------------------------------- read handlers

\* app.get('/api/analysis/:id')
GetAnalysis(id) ==
  IF id \in DOMAIN analysisResults
  THEN Reply(200, analysisResults[id])
  ELSE Reply(404, [error |-> "Analysis not found"])

\* !result.audio: the base64 string of a record is empty (the file read back
\* held no bytes).
NoAudioIn(result) == FromBase64(result.audio) = Mp3(<<>>)

\* app.get('/api/download/:id'): the 404 is a JSON body, the 200 the decoded
\* buffer sent as audio/mpeg.
GetDownload(id) ==
  IF id \notin DOMAIN analysisResults THEN Reply(404, [error |-> "Audio file not found"])
  ELSE IF NoAudioIn(analysisResults[id]) THEN Reply(404, [error |-> "Audio file not found"])
  ELSE Reply(200, [audio |-> FromBase64(analysisResults[id].audio)])

\* app.get('/api/health')
GetHealth ==
  Reply(200, [status |-> "healthy", timestamp |-> now,
              activeAnalyses |-> Cardinality(DOMAIN analysisResults)])

\* app.use((err, req, res, next) => ..): the catch-all error handler.
ErrorHandlerReply ==
  Reply(500, [error |-> "Internal server error",
              message |-> "Something went wrong. Please try again."])

\* app.use((req, res) => ..): the handler of unmatched routes.
NotFoundReply == Reply(404, [error |-> "Endpoint not found"])

\* The ids a client asks for: the id of any run, and NoId for an id that no
\* run was ever given.
AskedIds == { req[r].analysisId : r \in Reqs } \cup {NoId}

\* GET /api/analysis/:id is served.
ReadAnalysis(id) ==
  /\ lastRead' = [route |-> "analysis", id |-> id, reply |-> GetAnalysis(id)]
  /\ UNCHANGED <<req, analysisResults, timers, now, uploads, temp, nodeEnv>>

\* GET /api/download/:id is served.
ReadDownload(id) ==
  /\ lastRead' = [route |-> "download", id |-> id, reply |-> GetDownload(id)]
  /\ UNCHANGED <<req, analysisResults, timers, now, uploads, temp, nodeEnv>>

\* GET /api/health is served.
ReadHealth ==
  /\ lastRead' = [route |-> "health", id |-> NoId, reply |-> GetHealth]
  /\ UNCHANGED <<req, analysisResults, timers, now, uploads, temp, nodeEnv>>

\* A request for a route the application does not define is served.
ReadUnmatched ==
  /\ lastRead' = [route |-> "unmatched", id |-> NoId, reply |-> NotFoundReply]
  /\ UNCHANGED <<req, analysisResults, timers, now, uploads, temp, nodeEnv>>

\* A middleware passed an error to next(err) and the error handler answers.
ReadFailed ==
  /\ lastRead' = [route |-> "error", id |-> NoId, reply |-> ErrorHandlerReply]
  /\ UNCHANGED <<req, analysisResults, timers, now, uploads, temp, nodeEnv>>

\* ------------------------------------------------------------ specification

Next ==
  \/ \E r \in Reqs, hasFile \in BOOLEAN : Start(r, hasFile)
  \/ \E r \in Reqs, ok \in BOOLEAN : ReadUploadDone(r, ok)
  \/ \E r \in Reqs, resp \in DeepgramResponses : DeepgramReturn(r, resp)
  \/ \E r \in Reqs, f \in AxiosFailures : DeepgramFail(r, f)
  \/ \E r \in Reqs, ok \in BOOLEAN : UnlinkUploadDone(r, ok)
  \/ \E r \in Reqs, text \in GeminiResponses : GeminiReturn(r, text)
  \/ \E r \in Reqs, f \in AxiosFailures : GeminiFail(r, f)
  \/ \E r \in Reqs, ok \in BOOLEAN, rnd \in Rands : MkdirDone(r, ok, rnd)
  \/ \E r \in Reqs : TtsSaveDone(r)
  \/ \E r \in Reqs, err \in GttsErrors, written \in BOOLEAN : TtsSaveFail(r, err, written)
  \/ \E r \in Reqs, ok \in BOOLEAN : ReadBackDone(r, ok)
  \/ \E r \in Reqs, ok \in BOOLEAN : UnlinkTempDone(r, ok)
  \/ \E r \in Reqs, ok \in BOOLEAN : CatchUnlinkDone(r, ok)
  \/ \E t \in timers : TimerFire(t)
  \/ \E d \in {1, TTL} : Tick(d)

Spec == Init /\ [][Next]_vars

\* ----------------------------------------------- the parsing specification

\* The lexemes feedback-generation outputs are built from in SpecParse.
Alphabet == {"Feedback:", "FEEDBACK:", "Corrected:", "corrected:", "\n", " ", "a"}

\* Every output of at most MaxAiLen lexemes.
AllTexts == UNION { [1..k -> Alphabet] : k \in 0..MaxAiLen }

\* The transcripts of SpecParse: one with whitespace at both ends.
ParseTranscripts == { <<"a">>, <<" ", "a", " ">> }

InitParse == Init /\ nodeEnv = "production"

\* One request on which every step succeeds, its transcript drawn from
\* ParseTranscripts and its feedback-generation output from AllTexts.
NextParse ==
  \/ Start(1, TRUE)
  \/ ReadUploadDone(1, TRUE)
  \/ \E t \in ParseTranscripts :
       DeepgramReturn(1, ChannelsResponse(Str(<<Channel(Str(<<Alternative(Str(t))>>))>>)))
  \/ UnlinkUploadDone(1, TRUE)
  \/ /\ req[1].pc = "gemini"
     /\ \E text \in {Undefined} \cup { Str(t) : t \in AllTexts } : GeminiReturn(1, text)
  \/ MkdirDone(1, TRUE, 1)
  \/ TtsSaveDone(1)
  \/ ReadBackDone(1, TRUE)
  \/ UnlinkTempDone(1, TRUE)

SpecParse == InitParse /\ [][NextParse]_vars

\* ------------------------------------------------- the store specification

\* The feedback-generation outputs of SpecStore: one with a correction, one
\* whose Corrected: section is empty.
StoreTexts ==
  { <<"Feedback:", "a", "\n", "Corrected:", "A">>,
    <<"feedback:", "b", " ", "corrected:", " ">> }

\* Requests on which every step succeeds, interleaved with each other, with
\* the expiry timers and the clock, and with the GET handlers.
NextStore ==
  \/ \E r \in Reqs : Start(r, TRUE)
  \/ \E r \in Reqs : ReadUploadDone(r, TRUE)
  \/ \E r \in Reqs :
       DeepgramReturn(r, ChannelsResponse(Str(<<Channel(Str(<<Alternative(Str(<<"a">>))>>))>>)))
  \/ \E r \in Reqs : UnlinkUploadDone(r, TRUE)
  \/ \E r \in Reqs, t \in StoreTexts : GeminiReturn(r, Str(t))
  \/ \E r \in Reqs, rnd \in Rands : MkdirDone(r, TRUE, rnd)
  \/ \E r \in Reqs : TtsSaveDone(r)
  \/ \E r \in Reqs : ReadBackDone(r, TRUE)
  \/ \E r \in Reqs : UnlinkTempDone(r, TRUE)
  \/ \E t \in timers : TimerFire(t)
  \/ \E d \in {1, TTL} : Tick(d)
  \/ \E id \in AskedIds : ReadAnalysis(id)
  \/ \E id \in AskedIds : ReadDownload(id)
  \/ ReadHealth
  \/ ReadUnmatched
  \/ ReadFailed

SpecStore == Init /\ [][NextStore]_vars

\* --------------------------------------------- the liveness specification

\* Time passes until the deadline of a pending timer.
Elapse(t) ==
  /\ t \in timers
  /\ now < t.deadline
  /\ now' = t.deadline
  /\ UNCHANGED <<req, analysisResults, timers, uploads, temp, nodeEnv, lastRead>>

\* The awaited operation of request r settles, in any of the ways it can,
\* and the handler resumes.
Continue(r) ==
  \/ \E ok \in BOOLEAN : ReadUploadDone(r, ok)
  \/ \E resp \in DeepgramResponses : DeepgramReturn(r, resp)
  \/ \E f \in AxiosFailures : DeepgramFail(r, f)
  \/ \E ok \in BOOLEAN : UnlinkUploadDone(r, ok)
  \/ \E text \in GeminiResponses : GeminiReturn(r, text)
  \/ \E f \in AxiosFailures : GeminiFail(r, f)
  \/ \E ok \in BOOLEAN, rnd \in Rands : MkdirDone(r, ok, rnd)
  \/ TtsSaveDone(r)
  \/ \E err \in GttsErrors, written \in BOOLEAN : TtsSaveFail(r, err, written)
  \/ \E ok \in BOOLEAN : ReadBackDone(r, ok)
  \/ \E ok \in BOOLEAN : UnlinkTempDone(r, ok)
  \/ \E ok \in BOOLEAN : CatchUnlinkDone(r, ok)

\* The handler, the timers, and a clock that moves from deadline to deadline.
NextLive ==
  \/ \E r \in Reqs, hasFile \in BOOLEAN : Start(r, hasFile)
  \/ \E r \in Reqs : Continue(r)
  \/ \E t \in timers : TimerFire(t)
  \/ \E t \in timers : Elapse(t)

\* Every awaited operation settles (the two axios calls carry a timeout, the
\* fs promises and the tts.save callback settle), time passes, and a timer
\* whose deadline has passed runs.  Nothing obliges a client to send a request.
Fairness ==
  /\ \A r \in Reqs : WF_vars(Continue(r))
  /\ WF_vars(\E t \in timers : Elapse(t))
  /\ WF_vars(\E t \in timers : TimerFire(t))

SpecLive == Init /\ [][NextLive]_vars /\ Fairness

\* =============================================================== properties

Has(t, e) == \E i \in 1..Len(t) : t[i] = e
Count(t, e) == Cardinality({ i \in 1..Len(t) : t[i] = e })
Responded(rq) == Len(rq.responses) > 0
Status(rq) == rq.responses[1].status
Blank(s) == \A i \in 1..Len(s) : IsSpace(s[i])
\* The record run r put into the store.
PutRecord(rq) ==
  [id |-> rq.analysisId, transcript |-> rq.transcript.val, feedback |-> rq.feedback,
   correctedText |-> rq.correctedText, audio |-> rq.audio, timestamp |-> rq.putAt]
\* Run r has stored a record that is still in the store.
Stored(r) ==
  /\ req[r].putAt >= 0
  /\ req[r].analysisId \in DOMAIN analysisResults
  /\ analysisResults[req[r].analysisId] = PutRecord(req[r])

\* C1: a step of a request that does not end in its 200 response (no file, no
\* speech, a failure or timeout at any stage, or any step before the last)
\* leaves the result store exactly as it was: no record is inserted for a
\* failed run.
C1_NoRecordForFailedRun ==
  [][\A r \in Reqs :
       (req'[r].pc # req[r].pc /\ ~(Responded(req'[r]) /\ Status(req'[r]) = 200))
         => analysisResults' = analysisResults]_vars

\* A run failed at its last stage (speech synthesis) and was answered.
C1_Witness ==
  \E r \in Reqs : Responded(req[r]) /\ Status(req[r]) = 500 /\ Has(req[r].trace, "tts.fail")

\* C2 (as claimed): a record inserted at t0 is returned by GET /api/analysis/:id
\* at every probe before t0 + TTL and absent after its expiry timer has fired.
C2_Orig ==
  \A r \in Reqs :
    req[r].putAt >= 0 =>
      /\ now < req[r].putAt + TTL =>
           GetAnalysis(req[r].analysisId) = Reply(200, PutRecord(req[r]))
      /\ req[r].expired => GetAnalysis(req[r].analysisId).status = 404

\* C3 (as claimed): every stored record has a non-empty correctedText and
\* speech synthesis is never invoked with empty text.
C3_Orig ==
  /\ \A id \in DOMAIN analysisResults : analysisResults[id].correctedText # <<>>
  /\ \A r \in Reqs : Has(req[r].trace, "tts.call") => req[r].correctedText # <<>>

\* What the claim calls a transcription that yields no alternative, an empty
\* string or a whitespace-only string (a well-formed response body).
YieldsNoSpeech(resp) ==
  \/ ~resp.data
  \/ ~resp.results
  \/ /\ resp.channels.def
     /\ \/ resp.channels.val = <<>>
        \/ /\ resp.channels.val # <<>>
           /\ resp.channels.val[1].alternatives.def
           /\ \/ resp.channels.val[1].alternatives.val = <<>>
              \/ /\ resp.channels.val[1].alternatives.val # <<>>
                 /\ LET t == resp.channels.val[1].alternatives.val[1].transcript
                    IN ~t.def \/ Blank(t.val)

StoreTranscriptsNonBlank ==
  \A id \in DOMAIN analysisResults : ~Blank(analysisResults[id].transcript)

Calls == {"stt.call", "fb.call", "tts.call"}
Failures == {"stt.fail", "fb.fail", "tts.fail", "throw"}
Before(t, e, i) == \E j \in 1..(i - 1) : t[j] = e

\* C5: within one request each external call is made at most once; feedback
\* generation starts only after transcription returned a transcript,
\* synthesis only after feedback generation returned, the store insert only
\* after synthesis returned; after a failure nothing more is invoked.
C5_StagesOrderedNoRetry ==
  \A r \in Reqs :
    LET t == req[r].trace IN
    /\ \A c \in Calls \cup {"put"} : Count(t, c) <= 1
    /\ \A i \in 1..Len(t) :
         /\ t[i] = "fb.call" =>
              Before(t, "stt.ok", i) /\ req[r].transcript.def /\ ~Blank(req[r].transcript.val)
         /\ t[i] = "tts.call" => Before(t, "fb.ok", i)
         /\ t[i] = "put" => Before(t, "tts.ok", i)
         /\ t[i] \in Failures => \A j \in (i + 1)..Len(t) : t[j] \notin Calls \cup {"put"}
    /\ (req[r].analysisId \in DOMAIN analysisResults) =>
         \E q \in Reqs : req[q].analysisId = req[r].analysisId /\ Has(req[q].trace, "put")

\* A run made all three calls in order and stored its record, while another
\* run stopped at a failed feedback generation.
C5_Witness ==
  \E r, q \in Reqs :
    /\ req[r].trace = <<"stt.call", "stt.ok", "fb.call", "fb.ok", "tts.call", "tts.ok", "put">>
    /\ req[q].pc = "done"
    /\ Has(req[q].trace, "fb.fail")

\* The status the claim gives each kind of failure.
ExpectedStatus(kind) ==
  CASE kind \in {"nofile", "nospeech"} -> 400
    [] kind = "timeout" -> 408
    [] kind \in {"auth", "synth", "other"} -> 500
    [] OTHER -> 200

C8_Orig ==
  \A r \in Reqs :
    (Responded(req[r]) /\ req[r].analysisId # NoId) => req[r].analysisId \notin DOMAIN temp

\* The claim's reading of the parse: the text between the first Feedback:
\* marker and the next Corrected: marker (the end of the text if there is
\* none), and the text after the first Corrected: marker.
MarkerAt(s, IsMarker(_)) == { i \in 1..Len(s) : IsMarker(s[i]) }
MinOf(S) == CHOOSE x \in S : \A y \in S : x <= y
HasFeedbackMarker(s) == MarkerAt(s, IsFeedbackMarker) # {}
HasCorrectedMarker(s) == MarkerAt(s, IsCorrectedMarker) # {}
NextCorrected(s) ==
  { j \in MarkerAt(s, IsCorrectedMarker) : j > MinOf(MarkerAt(s, IsFeedbackMarker)) }
ClaimedFeedback(s) ==
  LET i == MinOf(MarkerAt(s, IsFeedbackMarker))
      e == IF NextCorrected(s) = {} THEN Len(s) ELSE MinOf(NextCorrected(s)) - 1
  IN trim(SubSeq(s, i + 1, e))
ClaimedCorrected(s) ==
  trim(SubSeq(s, MinOf(MarkerAt(s, IsCorrectedMarker)) + 1, Len(s)))
\* The Corrected: marker that follows the feedback starts a line, and the
\* feedback section holds more than whitespace.
CorrectedOnOwnLine(s) ==
  NextCorrected(s) # {} =>
    LET i == MinOf(MarkerAt(s, IsFeedbackMarker))
        j == MinOf(NextCorrected(s))
    IN s[j - 1] = "\n" /\ ~Blank(SubSeq(s, i + 1, j - 1))

C10_Fallbacks ==
  \A r \in Reqs :
    Stored(r) =>
      /\ ~HasCorrectedMarker(req[r].aiText) =>
           analysisResults[req[r].analysisId].correctedText = req[r].resp.channels.val[1].alternatives.val[1].transcript.val
      /\ ~HasFeedbackMarker(req[r].aiText) =>
           analysisResults[req[r].analysisId].feedback = <<"No specific feedback generated.">>

\* A record whose output had a Feedback: but no Corrected: marker is stored
\* with the transcript " a " unchanged and the parsed feedback.
C10_Witness ==
  \E r \in Reqs :
    /\ Stored(r)
    /\ req[r].aiText = <<"Feedback:", "a">>
    /\ analysisResults[req[r].analysisId].correctedText = <<" ", "a", " ">>
    /\ analysisResults[req[r].analysisId].feedback = <<"a">>

\* C11 (as claimed): a stored record is never mutated or replaced: whatever
\* step is taken (another run's insert, a read, another id's timer), an id
\* that is in the store before and after it is read back with the same id,
\* transcript, feedback, correctedText, audio and timestamp.
C11_Orig ==
  [][\A id \in DOMAIN analysisResults :
       id \in DOMAIN analysisResults' => GetAnalysis(id)' = GetAnalysis(id)]_vars

\* C12 (as claimed): the ids given to two runs differ, so an insert never
\* overwrites an entry and a run's expiry timer never deletes a record that
\* another run inserted.
C12_Orig ==
  /\ [](\A r, q \in Reqs :
          (r # q /\ req[r].analysisId # NoId) => req[r].analysisId # req[q].analysisId)
  /\ [][\A r \in Reqs :
          (req[r].putAt < 0 /\ req'[r].putAt >= 0) =>
             req'[r].analysisId \notin DOMAIN analysisResults]_vars
  /\ [][\A t \in timers :
          (t \notin timers' /\ t.id \in DOMAIN analysisResults) =>
             analysisResults[t.id] = PutRecord(req[t.run])]_vars

\* No run has stored a record under id.
NeverStored(id) == \A r \in Reqs : req[r].analysisId = id => req[r].putAt < 0
\* The expiry timer of a record stored under id has fired.
HasExpired(id) == \E r \in Reqs : req[r].analysisId = id /\ req[r].expired

\* C13 (as claimed): both GET handlers answer 404 for an id that was never
\* stored or whose record has expired; the download also answers 404 for a
\* record without audio; a 404 download carries no audio bytes and a 200
\* download exactly the audio of that id's record.
C13_Orig ==
  \A id \in AskedIds :
    /\ (NeverStored(id) \/ HasExpired(id)) =>
          GetAnalysis(id).status = 404 /\ GetDownload(id).status = 404
    /\ (id \in DOMAIN analysisResults /\ NoAudioIn(analysisResults[id])) =>
          GetDownload(id).status = 404
    /\ GetDownload(id).status = 404 => "audio" \notin DOMAIN GetDownload(id).body
    /\ GetDownload(id).status = 200 =>
          GetDownload(id).body.audio = FromBase64(analysisResults[id].audio)

ErrorStatuses == {400, 404, 408, 500}
\* A reply that is an error response is a JSON object with both fields.
WellFormedError(reply) ==
  reply.status \in ErrorStatuses => {"error", "message"} \subseteq DOMAIN reply.body

\* C14 (as claimed): every error response of /analyze-speech, of the two GET
\* handlers, of the error handler and of the unmatched-route handler has both
\* an error field and a message field.
C14_Orig ==
  /\ \A r \in Reqs : \A i \in 1..Len(req[r].responses) : WellFormedError(req[r].responses[i])
  /\ WellFormedError(lastRead.reply)

\* Two lexemes are the same letter, whatever their case.
SameLetter(c, d) == c = d \/ {c, d} \in {{"a", "A"}, {"b", "B"}}
\* Two texts are equal under case-insensitive comparison.
EqualIgnoringCase(s, t) ==
  Len(s) = Len(t) /\ \A i \in 1..Len(s) : SameLetter(s[i], t[i])

\* C15: when a request is answered 200, preview.hasCorrections is false
\* exactly when the correctedText of the record just stored equals its
\* transcript under case-insensitive comparison; it is false whenever the
\* correctedText is the transcript fallback.
C15_HasCorrections ==
  [][\A r \in Reqs :
       (~Responded(req[r]) /\ Responded(req'[r]) /\ Status(req'[r]) = 200) =>
         LET body == req'[r].responses[1].body
             rec == analysisResults'[body.analysisId]
         IN /\ body.hasCorrections = ~EqualIgnoringCase(rec.correctedText, rec.transcript)
            /\ ~HasCorrectedMarker(req'[r].aiText) => ~body.hasCorrections]_vars

\* A run whose correction differs from its transcript in case only ("A" for
\* "a") was answered with hasCorrections false, and a run with the empty
\* correction with hasCorrections true.
C15_Witness ==
  /\ \E r \in Reqs :
       /\ Responded(req[r]) /\ Status(req[r]) = 200
       /\ req[r].transcript.val = <<"a">> /\ req[r].correctedText = <<"A">>
       /\ ~req[r].responses[1].body.hasCorrections
  /\ \E r \in Reqs :
       /\ Responded(req[r]) /\ Status(req[r]) = 200
       /\ req[r].correctedText = <<>>
       /\ req[r].responses[1].body.hasCorrections

\* C16 (as claimed): concurrent requests are independent.  While a run reads
\* back and unlinks its synthesized file, the file is there and holds the
\* audio of its own correctedText, whatever other runs did or failed at; the
\* record a run stores is built from its own transcript, feedback and audio,
\* the id it returns is its own, and until its own timer fires the store
\* holds that record unaltered.
C16_Orig ==
  \A r \in Reqs :
    /\ req[r].pc \in {"readBack", "unlinkTemp"} =>
         /\ req[r].analysisId \in DOMAIN temp
         /\ temp[req[r].analysisId] = Mp3(req[r].correctedText)
    /\ req[r].putAt >= 0 =>
         /\ req[r].transcript = ExtractTranscript(req[r].resp).value
         /\ req[r].feedback = ParseFeedback(req[r].aiText)
         /\ req[r].audio = Base64(Mp3(req[r].correctedText))
         /\ req[r].responses[1].body.analysisId = req[r].analysisId
         /\ ~req[r].expired => Stored(r)

\* C17: an /analyze-speech response has a details field only when the
\* process does not run in production mode, and the timeout (408) and
\* authentication-failure responses have none in any mode.
C17_NoDetailsInProduction ==
  \A r \in Reqs : \A i \in 1..Len(req[r].responses) :
    LET reply == req[r].responses[i] IN
    /\ "details" \in DOMAIN reply.body => nodeEnv # "production"
    /\ (reply.status = 408 \/ req[r].kind \in {"timeout", "auth"}) =>
         "details" \notin DOMAIN reply.body

\* In production mode one run was answered with the generic 500, which has
\* the error and message fields only, and another with the 408.
C17_Witness ==
  /\ nodeEnv = "production"
  /\ \E r \in Reqs :
       /\ Responded(req[r]) /\ Status(req[r]) = 500
       /\ req[r].responses[1].body.error = "Analysis failed"
       /\ DOMAIN req[r].responses[1].body = {"error", "message"}
  /\ \E r \in Reqs : Responded(req[r]) /\ Status(req[r]) = 408

\* C18: when the expiry timer of id X fires, the entry of X is removed and
\* every other entry of the store is left as it was; if X is already absent
\* the store is left unchanged.
C18_RemovalLocalIdempotent ==
  [][\A t \in timers :
       t \notin timers' =>
         /\ DOMAIN analysisResults' = DOMAIN analysisResults \ {t.id}
         /\ \A id \in DOMAIN analysisResults' : analysisResults'[id] = analysisResults[id]
         /\ t.id \notin DOMAIN analysisResults => analysisResults' = analysisResults]_vars

\* One run's timer has fired and its entry is gone, while the record of
\* another run, stored under another id, is still in the store.
C18_Witness ==
  \E r, q \in Reqs :
    /\ req[r].expired
    /\ req[r].analysisId \notin DOMAIN analysisResults
    /\ req[q].analysisId # req[r].analysisId
    /\ ~req[q].expired
    /\ Stored(q)

C20_EveryRecordExpires ==
  /\ [](\A id \in DOMAIN analysisResults : \E t \in timers : t.id = id)
  /\ <>[](analysisResults = <<>> /\ GetHealth.body.activeAnalyses = 0)

\* Two runs stored a record each, both timers have fired, the store is
\* empty and the health check reports no active analysis.
C20_Witness ==
  /\ \A r \in Reqs : req[r].putAt >= 0 /\ req[r].expired
  /\ req[1].analysisId # req[2].analysisId
  /\ timers = {}
  /\ analysisResults = <<>>
  /\ GetHealth.body.activeAnalyses = 0

====
